---- MODULE Spec2Model ----
(***************************************************************************)
(* Model of src/main.py: an HTTP gateway that routes chat-completion and   *)
(* file-upload requests through three database tables (models,             *)
(* routing_rules, file_routing_rules).                                      *)
(*                                                                         *)
(* Strings the code only passes around or compares whole (model names,     *)
(* provider names, canned responses) are TLA+ strings.  Strings the code   *)
(* looks inside (regex patterns, prompts, file names, file types) are      *)
(* sequences of one-character strings.                                     *)
(***************************************************************************)
EXTENDS Integers, Sequences, FiniteSets, TLC

VARIABLES
    models,              \* table "models": the rows' name column, in id order
    routing_rules,       \* table "routing_rules": rows in id order
    file_routing_rules,  \* table "file_routing_rules": rows in id order
    chat,                \* a chat_completions request served step by step
    ret                  \* what the last handler that ran to completion returned

vars == <<models, routing_rules, file_routing_rules, chat, ret>>

(***************************************************************************)
(* Bounds and input sets                                                   *)
(***************************************************************************)
MaxRules == 3       \* rows of routing_rules
MaxFileRules == 2   \* rows of file_routing_rules
MaxRows == 2        \* rows of both rule tables together, where all handlers run

Providers == {"openai", "anthropic"}
RequestModels == {"openai/gpt-3.5", "gemini/gemini-alpha", "unknown/model"}
OriginalModels == {"openai/gpt-3.5"}
RedirectModels == {"anthropic/claude-v1", "mistral/x"}
\* regex_pattern values: two literals and the unterminated group "("
Patterns == {<<"u">>, <<"X">>, <<"(">>}
Prompts == {<<>>, <<"U">>, <<"x">>, <<"x", "U">>}

FileTypes == {<<"p">>, <<"P">>, <<"t">>}
FileNames == {<<"t", ".", "p">>, <<"t", ".", "P">>, <<"P">>,
              <<"p", ".", "t">>, <<"p", ".", "t", ".", "P">>}

(***************************************************************************)
(* Helpers for sequences                                                   *)
(***************************************************************************)
Range(s) == {s[i] : i \in 1..Len(s)}

IsPrefix(s, t) == Len(s) <= Len(t) /\ SubSeq(t, 1, Len(s)) = s

\* str.lower() on the characters the model uses
Lower(c) ==
    CASE c = "U" -> "u"
      [] c = "X" -> "x"
      [] c = "P" -> "p"
      [] OTHER -> c

LowerStr(s) == [i \in 1..Len(s) |-> Lower(s[i])]

(***************************************************************************)
(* initialize_models                                                       *)
(***************************************************************************)
default_models == <<"openai/gpt-3.5", "anthropic/claude-v1", "gemini/gemini-alpha">>

\* the seeding with the membership test left out
initialize_models_unchecked(rows) == rows \o default_models

\* existing_models is read once; each default not in it is added, in order
initialize_models(rows) ==
    LET existing_models == Range(rows)
    IN  rows \o SelectSeq(default_models, LAMBDA n : n \notin existing_models)

\* {m.name for m in db.query(Model).all()}
model_names(rows) == Range(rows)

(***************************************************************************)
(* re.search(pattern, prompt, re.IGNORECASE)                               *)
(***************************************************************************)
\* re.compile raises re.error on an unterminated group
re_compiles(pattern) == \A i \in 1..Len(pattern) : pattern[i] # "("

\* "error" when the pattern does not compile, else whether it occurs
\* somewhere in the prompt, letters compared without case
re_search(pattern, prompt) ==
    IF ~re_compiles(pattern) THEN "error"
    ELSE IF \E off \in 0..(Len(prompt) - Len(pattern)) :
                \A i \in 1..Len(pattern) :
                    Lower(pattern[i]) = Lower(prompt[off + i])
         THEN "match"
         ELSE "none"

(***************************************************************************)
(* chat_completions                                                        *)
(***************************************************************************)
\* a read that misses the newest row
query_rules_stale(table) ==
    IF table = <<>> THEN table ELSE SubSeq(table, 1, Len(table) - 1)

\* db.query(RoutingRule).all(): every row, in id order
query_rules(table) == table

RECURSIVE scan_last_match(_, _, _)
\* the loop without its break: the last matching rule wins
scan_last_match(rules, prompt, model) ==
    IF rules = <<>> THEN [raised |-> FALSE, model |-> model]
    ELSE LET found == re_search(Head(rules).regex_pattern, prompt)
         IN  IF found = "error" THEN [raised |-> TRUE, model |-> model]
             ELSE IF found = "match"
                  THEN scan_last_match(Tail(rules), prompt, Head(rules).redirect_model)
                  ELSE scan_last_match(Tail(rules), prompt, model)

RECURSIVE scan_unconditional(_, _, _)
\* the assignment outside the if: every rule examined rewrites the model
scan_unconditional(rules, prompt, model) ==
    IF rules = <<>> THEN [raised |-> FALSE, model |-> model]
    ELSE LET found == re_search(Head(rules).regex_pattern, prompt)
         IN  IF found = "error" THEN [raised |-> TRUE, model |-> model]
             ELSE IF found = "match"
                  THEN [raised |-> FALSE, model |-> Head(rules).redirect_model]
                  ELSE scan_unconditional(Tail(rules), prompt, Head(rules).redirect_model)

RECURSIVE scan_skip_invalid(_, _, _)
\* a rule whose pattern does not compile is skipped
scan_skip_invalid(rules, prompt, model) ==
    IF rules = <<>> THEN [raised |-> FALSE, model |-> model]
    ELSE LET found == re_search(Head(rules).regex_pattern, prompt)
         IN  IF found = "match"
             THEN [raised |-> FALSE, model |-> Head(rules).redirect_model]
             ELSE scan_skip_invalid(Tail(rules), prompt, model)

RECURSIVE scan(_, _, _)
\* for rule in rules: if re.search(...): model = rule.redirect_model; break
\* raised: re.search raised re.error before any rule matched
scan(rules, prompt, model) ==
    IF rules = <<>> THEN [raised |-> FALSE, model |-> model]
    ELSE LET found == re_search(Head(rules).regex_pattern, prompt)
         IN  IF found = "error" THEN [raised |-> TRUE, model |-> model]
             ELSE IF found = "match"
                  THEN [raised |-> FALSE, model |-> Head(rules).redirect_model]
                  ELSE scan(Tail(rules), prompt, model)

\* responses.get(model, "Response not available.")
responses_get(model) ==
    CASE model = "openai/gpt-3.5" ->
            "OpenAI: Processed your prompt with advanced language understanding."
      [] model = "anthropic/claude-v1" ->
            "Anthropic: Your prompt has been interpreted with ethical AI principles."
      [] model = "gemini/gemini-alpha" ->
            "Gemini: Your request has been processed using next-gen AI."
      [] OTHER -> "Response not available."

\* the provider a model name starts with
provider_of(model) ==
    CASE model = "openai/gpt-3.5" -> "openai"
      [] model = "anthropic/claude-v1" -> "anthropic"
      [] model = "gemini/gemini-alpha" -> "gemini"
      [] model = "mistral/x" -> "mistral"
      [] OTHER -> "unknown"

\* the membership test applied to the model the rules chose
chat_result_check_after(provider, model, prompt, names, rules) ==
    LET s == scan(rules, prompt, model)
    IN  IF s.raised THEN [exception |-> "re.error"]
        ELSE IF s.model \notin names THEN [error |-> "Model not supported"]
        ELSE [provider |-> provider, model |-> s.model,
              response |-> responses_get(s.model)]

\* the provider rewritten to the one of the effective model
chat_result_provider_follows(provider, model, prompt, names, rules) ==
    IF model \notin names THEN [error |-> "Model not supported"]
    ELSE LET s == scan(rules, prompt, model)
         IN  IF s.raised THEN [exception |-> "re.error"]
             ELSE [provider |-> provider_of(s.model), model |-> s.model,
                   response |-> responses_get(s.model)]

\* what chat_completions returns, given the two query results;
\* [exception |-> ...] is the request aborted by an uncaught exception
chat_result(provider, model, prompt, names, rules) ==
    IF model \notin names THEN [error |-> "Model not supported"]
    ELSE LET s == scan(rules, prompt, model)
         IN  IF s.raised THEN [exception |-> "re.error"]
             ELSE [provider |-> provider, model |-> s.model,
                   response |-> responses_get(s.model)]

\* the handler run without interruption
chat_completions(provider, model, prompt) ==
    /\ ret' = [op |-> "chat_completions",
               req |-> [provider |-> provider, model |-> model, prompt |-> prompt],
               out |-> chat_result(provider, model, prompt, model_names(models),
                                   query_rules(routing_rules))]
    /\ UNCHANGED <<models, routing_rules, file_routing_rules, chat>>

\* the handler step by step: the query on models and the test on its result
ChatBegin(provider, model, prompt) ==
    /\ chat.pc \in {"idle", "done"}
    /\ LET req == [provider |-> provider, model |-> model, prompt |-> prompt]
           names == model_names(models)
       IN  chat' = IF model \notin names
                   THEN [pc |-> "done", req |-> req,
                         out |-> chat_result(provider, model, prompt, names, <<>>)]
                   ELSE [pc |-> "query_rules", req |-> req, names |-> names]
    /\ UNCHANGED <<models, routing_rules, file_routing_rules, ret>>

\* the query on routing_rules; .all() loads every row before the loop starts
ChatQueryRules ==
    /\ chat.pc = "query_rules"
    /\ chat' = [pc |-> "scan", req |-> chat.req, names |-> chat.names,
                rules |-> query_rules(routing_rules)]
    /\ UNCHANGED <<models, routing_rules, file_routing_rules, ret>>

\* the loop over the loaded rows and the return
ChatReturn ==
    /\ chat.pc = "scan"
    /\ chat' = [pc |-> "done", req |-> chat.req,
                out |-> chat_result(chat.req.provider, chat.req.model,
                                    chat.req.prompt, chat.names, chat.rules)]
    /\ UNCHANGED <<models, routing_rules, file_routing_rules, ret>>

(***************************************************************************)
(* add_regex_rule                                                          *)
(***************************************************************************)
\* the row put in front of the table
db_add_first(table, row) == <<row>> \o table

\* db.add(row); db.commit(): the row gets the next id
db_add(table, row) == Append(table, row)

RedirectResponse == [status |-> 303, location |-> "/admin"]

add_regex_rule(original_model, regex_pattern, redirect_model) ==
    /\ Len(routing_rules) < MaxRules
    /\ LET new_rule == [original_model |-> original_model,
                        regex_pattern |-> regex_pattern,
                        redirect_model |-> redirect_model]
       IN  /\ routing_rules' = db_add(routing_rules, new_rule)
           /\ ret' = [op |-> "add_regex_rule", req |-> new_rule,
                      out |-> RedirectResponse]
    /\ UNCHANGED <<models, file_routing_rules, chat>>

(***************************************************************************)
(* upload_file                                                             *)
(***************************************************************************)
\* file.filename.split(".")[-1].lower()
file_ext(filename) ==
    LET dots == {i \in 1..Len(filename) : filename[i] = "."}
        last == IF dots = {} THEN 0
                ELSE CHOOSE i \in dots : \A j \in dots : j <= i
    IN  LowerStr(SubSeq(filename, last + 1, Len(filename)))

\* the stored file_type folded to lower case before the comparison
first_file_rule_nocase(table, ext) ==
    LET hits == {i \in 1..Len(table) : LowerStr(table[i].file_type) = ext}
    IN  IF hits = {} THEN <<>>
        ELSE <<table[CHOOSE i \in hits : \A j \in hits : i <= j]>>

\* db.query(FileRoutingRule).filter(file_type == ext).first():
\* <<>> for None, else the one row
first_file_rule(table, ext) ==
    LET hits == {i \in 1..Len(table) : table[i].file_type = ext}
    IN  IF hits = {} THEN <<>>
        ELSE <<table[CHOOSE i \in hits : \A j \in hits : i <= j]>>

upload_result(filename, table) ==
    LET found == first_file_rule(table, file_ext(filename))
    IN  IF found # <<>>
        THEN LET rule == found[1]
             IN  [filename |-> filename,
                  provider |-> rule.redirect_provider,
                  model |-> rule.redirect_model,
                  response |-> rule.redirect_provider
                               \o ": File processed with AI model "
                               \o rule.redirect_model \o "."]
        ELSE [filename |-> filename, response |-> "File uploaded successfully."]

upload_file(filename) ==
    /\ ret' = [op |-> "upload_file", req |-> [filename |-> filename],
               out |-> upload_result(filename, file_routing_rules)]
    /\ UNCHANGED <<models, routing_rules, file_routing_rules, chat>>

(***************************************************************************)
(* add_file_routing_rule                                                   *)
(***************************************************************************)
\* no constraint on the column
file_type_unconstrained(table, row) == TRUE

\* Column(String, unique=True): the commit is refused when a row with the
\* same file_type exists
file_type_unique(table, row) ==
    \A i \in 1..Len(table) : table[i].file_type # row.file_type

add_file_routing_rule(file_type, redirect_provider, redirect_model) ==
    LET new_rule == [file_type |-> file_type,
                     redirect_provider |-> redirect_provider,
                     redirect_model |-> redirect_model]
    IN  /\ IF file_type_unique(file_routing_rules, new_rule)
           THEN /\ Len(file_routing_rules) < MaxFileRules
                /\ file_routing_rules' = db_add(file_routing_rules, new_rule)
                /\ ret' = [op |-> "add_file_routing_rule", req |-> new_rule,
                           out |-> RedirectResponse]
           ELSE /\ file_routing_rules' = file_routing_rules
                /\ ret' = [op |-> "add_file_routing_rule", req |-> new_rule,
                           out |-> [exception |-> "IntegrityError"]]
        /\ UNCHANGED <<models, routing_rules, chat>>

(***************************************************************************)
(* The read-only list handlers and the process restart                     *)
(***************************************************************************)
list_models ==
    /\ ret' = [op |-> "list_models", out |-> models]
    /\ UNCHANGED <<models, routing_rules, file_routing_rules, chat>>

get_regex_rules ==
    /\ ret' = [op |-> "get_regex_rules", out |-> routing_rules]
    /\ UNCHANGED <<models, routing_rules, file_routing_rules, chat>>

get_file_routing_rules ==
    /\ ret' = [op |-> "get_file_routing_rules", out |-> file_routing_rules]
    /\ UNCHANGED <<models, routing_rules, file_routing_rules, chat>>

\* the module is imported again over the database file it left behind
Restart ==
    /\ models' = initialize_models(models)
    /\ chat' = [pc |-> "idle"]
    /\ ret' = [op |-> "initialize_models"]
    /\ UNCHANGED <<routing_rules, file_routing_rules>>

(***************************************************************************)
(* Specifications                                                          *)
(***************************************************************************)
\* first start: create_all on an empty database, then initialize_models()
Init ==
    /\ models = initialize_models(<<>>)
    /\ routing_rules = <<>>
    /\ file_routing_rules = <<>>
    /\ chat = [pc |-> "idle"]
    /\ ret = [op |-> "startup"]

AddRegex ==
    \E om \in OriginalModels, pat \in Patterns, rm \in RedirectModels :
        add_regex_rule(om, pat, rm)

Chat ==
    \E p \in Providers, m \in RequestModels, q \in Prompts :
        chat_completions(p, m, q)

\* chat requests against a growing rule table, each handler uninterrupted
Next == AddRegex \/ Chat

Spec == Init /\ [][Next]_vars

AddFile ==
    \E ft \in FileTypes, rp \in Providers, rm \in RedirectModels :
        add_file_routing_rule(ft, rp, rm)

Upload == \E fn \in FileNames : upload_file(fn)

\* uploads against a growing file-rule table
NextFile == AddFile \/ Upload

SpecFile == Init /\ [][NextFile]_vars

ChatStart ==
    \E p \in Providers, m \in RequestModels, q \in Prompts : ChatBegin(p, m, q)

\* one chat request served step by step while rules are appended
NextConc == AddRegex \/ ChatStart \/ ChatQueryRules \/ ChatReturn

SpecConc == Init /\ [][NextConc]_vars

\* rows may still be added where both rule tables grow
RowsLeft == Len(routing_rules) + Len(file_routing_rules) < MaxRows

\* every handler, and restarts of the process
NextAll ==
    \/ RowsLeft /\ AddRegex
    \/ RowsLeft /\ AddFile
    \/ Chat
    \/ Upload
    \/ list_models
    \/ get_regex_rules
    \/ get_file_routing_rules
    \/ Restart

SpecAll == Init /\ [][NextAll]_vars

(***************************************************************************)
(* Properties                                                              *)
(***************************************************************************)
\* ret holds a chat_completions result; no handler of Spec changes the
\* tables without overwriting ret, so the tables are those the request saw
ChatDone == ret.op = "chat_completions"

KnownModel == ret.req.model \in model_names(models)

\* rule i's pattern compiles and is found in the prompt of the request
MatchesRule(i) == re_search(routing_rules[i].regex_pattern, ret.req.prompt) = "match"

InvalidRule(i) == ~re_compiles(routing_rules[i].regex_pattern)

Matching == {i \in 1..Len(routing_rules) : MatchesRule(i)}

Invalids == {i \in 1..Len(routing_rules) : InvalidRule(i)}

Least(S) == CHOOSE i \in S : \A j \in S : i <= j

Aborted == [exception |-> "re.error"]

Answered == "model" \in DOMAIN ret.out

\* C1: a request for a model that is not in the models table returns exactly
\* {error: "Model not supported"}, whatever the prompt and the stored rules.
C1_UnknownModelIsError ==
    (ChatDone /\ ~KnownModel) => ret.out = [error |-> "Model not supported"]

\* an unknown model was refused although a rule matches the prompt and
\* another rule's pattern does not compile
C1_Witness ==
    /\ ChatDone /\ ~KnownModel
    /\ Matching # {} /\ Invalids # {}
    /\ ret.out = [error |-> "Model not supported"]

\* C2 as stated: with a known model and a prompt that several stored rules
\* match, the returned model is the redirect_model of the first matching rule.
C2_Original ==
    (ChatDone /\ KnownModel /\ Cardinality(Matching) >= 2)
        => (Answered /\ ret.out.model = routing_rules[Least(Matching)].redirect_model)

\* C2 amended: the same, provided no rule stored before the first matching
\* rule has a pattern that does not compile (then the request aborts).
C2_FirstMatchWins ==
    (/\ ChatDone /\ KnownModel /\ Cardinality(Matching) >= 2
     /\ \A j \in Invalids : j > Least(Matching))
        => (Answered /\ ret.out.model = routing_rules[Least(Matching)].redirect_model)

\* two matching rules with different redirects, the first written for a
\* model other than the requested one; the first one's redirect came back
C2_Witness ==
    /\ ChatDone /\ KnownModel /\ Cardinality(Matching) >= 2
    /\ \E i, j \in Matching :
          /\ i = Least(Matching) /\ i < j
          /\ routing_rules[i].redirect_model # routing_rules[j].redirect_model
          /\ routing_rules[i].original_model # ret.req.model
          /\ Answered /\ ret.out.model = routing_rules[i].redirect_model

\* C3 as stated: with a known model and a prompt no stored rule matches, the
\* returned model is the requested one, with that model's canned response.
C3_Original ==
    (ChatDone /\ KnownModel /\ Matching = {})
        => (/\ Answered
            /\ ret.out.model = ret.req.model
            /\ ret.out.response = responses_get(ret.req.model)
            /\ ret.out.response # "Response not available.")

\* C3 amended: the same, provided every stored pattern compiles.
C3_NoMatchKeepsModel ==
    (ChatDone /\ KnownModel /\ Matching = {} /\ Invalids = {})
        => (/\ Answered
            /\ ret.out.model = ret.req.model
            /\ ret.out.response = responses_get(ret.req.model)
            /\ ret.out.response # "Response not available.")

\* rules are stored, none matches the non-empty prompt, the requested model
\* came back
C3_Witness ==
    /\ ChatDone /\ KnownModel /\ Matching = {} /\ Invalids = {}
    /\ Len(routing_rules) >= 2 /\ ret.req.prompt # <<>>
    /\ Answered /\ ret.out.model = ret.req.model

\* C4: every successful result carries the provider of the request unchanged,
\* also after a redirect to another provider's model, and the response text of
\* the effective model.
C4_ProviderPassedThrough ==
    (ChatDone /\ Answered)
        => (/\ ret.out.provider = ret.req.provider
            /\ ret.out.response = responses_get(ret.out.model))

\* a rule redirected the request to a model of another provider
C4_Witness ==
    /\ ChatDone /\ Answered
    /\ ret.out.model # ret.req.model
    /\ provider_of(ret.req.model) = ret.req.provider
    /\ provider_of(ret.out.model) # ret.req.provider
    /\ ret.out.provider = ret.req.provider
    /\ ret.out.response # responses_get(ret.req.model)

\* C5 as stated: a chat request with a known model whose prompt matches one
\* stored rule only returns that rule's redirect_model.
C5_Original ==
    (ChatDone /\ KnownModel /\ Cardinality(Matching) = 1)
        => (Answered /\ ret.out.model = routing_rules[Least(Matching)].redirect_model)

\* C5 amended: the same, provided no rule stored before that rule has a
\* pattern that does not compile.
C5_AppendThenResolve ==
    (/\ ChatDone /\ KnownModel /\ Cardinality(Matching) = 1
     /\ \A j \in Invalids : j > Least(Matching))
        => (Answered /\ ret.out.model = routing_rules[Least(Matching)].redirect_model)

\* the newest of several rules is the only one that matches, and its
\* redirect came back
C5_Witness ==
    /\ ChatDone /\ KnownModel
    /\ Len(routing_rules) >= 2
    /\ Matching = {Len(routing_rules)}
    /\ Invalids = {}
    /\ Answered /\ ret.out.model = routing_rules[Len(routing_rules)].redirect_model

\* add_regex_rule stored the rule it was given and redirected to /admin
RuleAccepted ==
    ret.op = "add_regex_rule"
        => (/\ ret.out = RedirectResponse
            /\ routing_rules # <<>>
            /\ routing_rules[Len(routing_rules)] = ret.req)

\* C8 as stated: add_regex_rule accepts any pattern, and while a rule with an
\* invalid pattern is stored every chat request with a known model aborts.
C8_Original ==
    /\ RuleAccepted
    /\ (ChatDone /\ KnownModel /\ Invalids # {}) => ret.out = Aborted

\* C8 amended: add_regex_rule accepts any pattern, and while a rule with an
\* invalid pattern is stored a chat request with a known model aborts exactly
\* when no rule stored before the first invalid rule matches the prompt.
C8_InvalidPatternAborts ==
    /\ RuleAccepted
    /\ (ChatDone /\ KnownModel /\ Invalids # {})
          => (ret.out = Aborted <=> \A j \in Matching : j > Least(Invalids))

\* the request aborted on an invalid rule stored after a valid rule that
\* does not match the prompt
C8_Witness ==
    /\ ChatDone /\ KnownModel /\ Invalids # {}
    /\ Least(Invalids) > 1
    /\ ret.out = Aborted

UploadDone == ret.op = "upload_file"

\* e is the lower-cased extension of file name fn: lower case, without a dot,
\* and either the whole lower-cased name or what follows its last dot
IsLowerExt(e, fn) ==
    /\ LowerStr(e) = e
    /\ \A i \in 1..Len(e) : e[i] # "."
    /\ Len(e) <= Len(fn)
    /\ SubSeq(LowerStr(fn), Len(fn) - Len(e) + 1, Len(fn)) = e
    /\ \/ Len(e) = Len(fn)
       \/ fn[Len(fn) - Len(e)] = "."

\* the stored rows whose file_type is the extension of the uploaded file
ExtRules ==
    {i \in 1..Len(file_routing_rules) :
        IsLowerExt(file_routing_rules[i].file_type, ret.req.filename)}

ProcessedBy(rule) ==
    [filename |-> ret.req.filename,
     provider |-> rule.redirect_provider,
     model |-> rule.redirect_model,
     response |-> rule.redirect_provider \o ": File processed with AI model "
                  \o rule.redirect_model \o "."]

\* C6: upload_file returns provider and model exactly when a stored rule's
\* file_type equals the lower-cased extension of the file; then the result is
\* built from that rule, otherwise it is the plain "File uploaded
\* successfully." result.  Stored file_types are compared as stored, so a
\* rule with an upper-case file_type is never the one used.
C6_FileRuleByLowerExt ==
    UploadDone =>
        /\ "provider" \in DOMAIN ret.out <=> ExtRules # {}
        /\ "model" \in DOMAIN ret.out <=> ExtRules # {}
        /\ IF ExtRules # {}
           THEN ret.out = ProcessedBy(file_routing_rules[Least(ExtRules)])
           ELSE ret.out = [filename |-> ret.req.filename,
                           response |-> "File uploaded successfully."]
        /\ \A i \in ExtRules :
              LowerStr(file_routing_rules[i].file_type) = file_routing_rules[i].file_type

\* a file with an upper-case extension was routed by the lower-case rule
\* stored after a rule for the same extension in upper case
C6_Witness ==
    /\ UploadDone
    /\ ret.req.filename = <<"t", ".", "P">>
    /\ Len(file_routing_rules) >= 2
    /\ file_routing_rules[1].file_type = <<"P">>
    /\ file_routing_rules[2].file_type = <<"p">>
    /\ "provider" \in DOMAIN ret.out
    /\ ret.out.model = file_routing_rules[2].redirect_model
    /\ ret.out.provider = file_routing_rules[2].redirect_provider

AddFileDone == ret.op = "add_file_routing_rule"

\* C7 as stated: every add_file_routing_rule succeeds and stores its row, also
\* when a row with the same file_type is already stored.
C7_Original ==
    AddFileDone
        => (/\ ret.out = RedirectResponse
            /\ file_routing_rules # <<>>
            /\ file_routing_rules[Len(file_routing_rules)] = ret.req)

NoDuplicateFileType ==
    \A i, j \in 1..Len(file_routing_rules) :
        file_routing_rules[i].file_type = file_routing_rules[j].file_type => i = j

\* a step of add_file_routing_rule: refused, with the table as it was, when
\* the file_type is already stored, and an append otherwise
AddFileStep ==
    AddFileDone' =>
        IF \E i \in 1..Len(file_routing_rules) :
               file_routing_rules[i].file_type = ret'.req.file_type
        THEN /\ ret'.out = [exception |-> "IntegrityError"]
             /\ file_routing_rules' = file_routing_rules
        ELSE /\ ret'.out = RedirectResponse
             /\ file_routing_rules' = Append(file_routing_rules, ret'.req)

\* C7 amended: add_file_routing_rule appends only a file_type that is not yet
\* stored; a second call with the same file_type fails with an integrity
\* error and leaves the table unchanged, so no two rows share a file_type.
C7_UniqueFileType == []NoDuplicateFileType /\ [][AddFileStep]_vars

\* a second rule for a stored file_type, with another target, was refused
C7_Witness ==
    /\ AddFileDone
    /\ ret.out = [exception |-> "IntegrityError"]
    /\ \E i \in 1..Len(file_routing_rules) :
          /\ file_routing_rules[i].file_type = ret.req.file_type
          /\ file_routing_rules[i].redirect_model # ret.req.redirect_model

\* the finished request's result is the result against the first k rows
FromPrefix(k) ==
    chat.out = chat_result(chat.req.provider, chat.req.model, chat.req.prompt,
                           model_names(models), SubSeq(routing_rules, 1, k))

ResultFromPrefix ==
    chat.pc = "done" => \E k \in 0..Len(routing_rules) : FromPrefix(k)

\* C9: with appends interleaved between the steps of a chat request, its
\* result is the result against a prefix of the rule table, and no step
\* changes, reorders or removes a stored rule.
C9_InterleavedIsSequential ==
    []ResultFromPrefix /\ [][IsPrefix(routing_rules, routing_rules')]_vars

\* rules appended while the request was in flight: its answer is not the one
\* the table gives now
C9_Witness ==
    /\ chat.pc = "done"
    /\ "model" \in DOMAIN chat.out
    /\ Len(routing_rules) >= 2
    /\ ~FromPrefix(Len(routing_rules))

ModelsSeeded ==
    /\ Range(default_models) \subseteq Range(models)
    /\ \A i, j \in 1..Len(models) : models[i] = models[j] => i = j

\* C10: the models table always holds the three default names and no name
\* twice, and no handler and no restart changes it.
C10_ModelsFixed == []ModelsSeeded /\ [][models' = models]_vars

\* the process restarted over a database that holds rules of both kinds
C10_Witness ==
    /\ ret.op = "initialize_models"
    /\ routing_rules # <<>>
    /\ file_routing_rules # <<>>
    /\ Len(models) = Len(default_models)

====
